---- MODULE Spec2Model ----
(***************************************************************************)
(* State machine of the chat client in src/App.tsx: the session list, the  *)
(* active-session pointer, the settings record, the model session handle   *)
(* (chatInstanceRef), the asynchronous handleSendMessage invocation and    *)
(* the pending title generations.                                          *)
(*                                                                         *)
(* One action is one event-loop task: a UI handler or one continuation of  *)
(* handleSendMessage, together with the render it causes and the effects   *)
(* that run after that render (the localStorage writes of lines 57-66).    *)
(* Text is a sequence of tokens; Date.now() is the input t of the actions  *)
(* that read the clock or whose effect is compared with it.                *)
(***************************************************************************)
EXTENDS Integers, Sequences, FiniteSets, Bags, TLC

\* ---------------------------------------------------------------- bounds
MaxSessions == 1      \* sessions created during one run, besides the loaded one
MaxSends == 1         \* handleSendMessage invocations that pass the guard
MaxResends == 2       \* the same, where one send follows another
MaxChunks == 2        \* chunks with text one stream delivers
MaxTime == 1          \* largest clock value

\* ------------------------------------------------------------- constants
FLASH == "gemini-3-flash-preview"
PRO == "gemini-3-pro-preview"
ModelIds == {FLASH, PRO}

DEFAULT_INSTRUCTION ==
    "You are a helpful and intelligent AI assistant powered by Google's Gemini models. Be concise, accurate, and use Markdown for formatting."
CUSTOM_INSTRUCTION == "Answer in French"

DEFAULT_SETTINGS == [systemInstruction |-> DEFAULT_INSTRUCTION, model |-> FLASH]

\* the records the settings editor saves in a run
AppSettings == {DEFAULT_SETTINGS,
                [systemInstruction |-> CUSTOM_INSTRUCTION, model |-> PRO]}

NEW_CHAT == "New Chat"
APOLOGY == <<"Sorry, something went wrong. Please check your API key or connection.">>

\* values of the inputs the environment supplies
Inputs == {<<" ">>, <<" ", "h", " ">>}
\* the text of the k-th chunk of a stream that carries text
StreamText == <<"Hel", "lo", " world", "!", "?">>
\* what the k-th chunk of a stream can be: without text, or with its text
Fragments(k) == {<<>>, <<StreamText[k]>>}
Titles == {NEW_CHAT, "Summary"}

NoSession == 0        \* currentSessionId === null
NoMessage == 0        \* botMessageId not yet assigned
Absent == [kind |-> "absent"]   \* chatInstanceRef.current === null

VARIABLES
    sessions,          \* useState<ChatSession[]>
    currentSessionId,  \* useState<string | null>
    isGenerating,      \* useState(false)
    settings,          \* useState<AppSettings>
    chatInstanceRef,   \* useRef<Chat | null>
    send,              \* the locals of the handleSendMessage invocation
    titleTasks,        \* pending generateChatTitle promises
    nextId,            \* crypto.randomUUID(): the next fresh message identifier
    now,               \* the value Date.now() returned in the last task
    mounted,           \* the App component is mounted
    lastWrite,         \* outcome of the last localStorage.setItem
    created,           \* crypto.randomUUID(): number of session identifiers drawn
    sends,             \* number of sends started so far
    titleLog           \* history: the bag of the sessions generateChatTitle was called for

vars == <<sessions, currentSessionId, isGenerating, settings, chatInstanceRef,
          send, titleTasks, nextId, now, mounted, lastWrite, created,
          sends, titleLog>>

\* ------------------------------------------------------- pure functions
IsSpace(c) == c = " "

RECURSIVE TrimStart(_)
TrimStart(s) ==
    IF s # <<>> /\ IsSpace(Head(s)) THEN TrimStart(Tail(s)) ELSE s

RECURSIVE TrimEnd(_)
TrimEnd(s) ==
    IF s # <<>> /\ IsSpace(s[Len(s)]) THEN TrimEnd(SubSeq(s, 1, Len(s) - 1)) ELSE s

\* String.prototype.trim
TrimText(s) == TrimEnd(TrimStart(s))

Ids(list) == {list[i].id : i \in 1..Len(list)}

HasSession(list, id) == \E i \in 1..Len(list) : list[i].id = id

\* Array.prototype.find on the session list; the caller checks HasSession
FindSession(list, id) ==
    list[CHOOSE i \in 1..Len(list) : list[i].id = id]

\* Array.prototype.findIndex: 0 stands for -1
FindIndex(msgs, id) ==
    IF \E i \in 1..Len(msgs) : msgs[i].id = id
    THEN CHOOSE i \in 1..Len(msgs) :
             msgs[i].id = id /\ \A j \in 1..(i - 1) : msgs[j].id # id
    ELSE 0

NewSession(id, t) ==
    [id |-> id, title |-> NEW_CHAT, messages |-> <<>>, createdAt |-> t,
     lastUpdated |-> t]

\* Message; its timestamp is written once and read by no handler, and is left out
MkMessage(id, role, content) ==
    [id |-> id, role |-> role, content |-> content]

createChatSession(systemInstruction, model) ==
    [kind |-> "chat", systemInstruction |-> systemInstruction, model |-> model]

getChatInstance_Default(ref, st) ==
    IF ref = Absent
    THEN createChatSession(DEFAULT_SETTINGS.systemInstruction, DEFAULT_SETTINGS.model)
    ELSE ref

getChatInstance(ref, st) ==
    IF ref = Absent THEN createChatSession(st.systemInstruction, st.model) ELSE ref

AppendUserMessage_All(list, sessionId, m, t) ==
    [i \in 1..Len(list) |->
        [list[i] EXCEPT !.messages = Append(@, m), !.lastUpdated = t]]

AppendUserMessage_Zero(list, sessionId, m, t) ==
    [i \in 1..Len(list) |->
        IF list[i].id = sessionId
        THEN [list[i] EXCEPT !.messages = Append(@, m), !.lastUpdated = 0]
        ELSE list[i]]

\* prev.map(s => s.id === sessionId ? {...s, messages: [...s.messages, m], lastUpdated} : s)
AppendUserMessage(list, sessionId, m, t) ==
    [i \in 1..Len(list) |->
        IF list[i].id = sessionId
        THEN [list[i] EXCEPT !.messages = Append(@, m), !.lastUpdated = t]
        ELSE list[i]]

AppendMessage_Active(list, sessionId, m) ==
    [i \in 1..Len(list) |->
        IF list[i].id = currentSessionId
        THEN [list[i] EXCEPT !.messages = Append(@, m)]
        ELSE list[i]]

\* prev.map(s => s.id === sessionId ? {...s, messages: [...s.messages, m]} : s)
AppendMessage(list, sessionId, m) ==
    [i \in 1..Len(list) |->
        IF list[i].id = sessionId
        THEN [list[i] EXCEPT !.messages = Append(@, m)]
        ELSE list[i]]

Accumulate_Delta(fullResponseText, chunkText) == chunkText

\* fullResponseText += chunkText
Accumulate(fullResponseText, chunkText) == fullResponseText \o chunkText

UpdateBotMessage(list, sessionId, botMessageId, text) ==
    [i \in 1..Len(list) |->
        IF list[i].id # sessionId
        THEN list[i]
        ELSE LET k == FindIndex(list[i].messages, botMessageId)
             IN  IF k # 0
                 THEN [list[i] EXCEPT !.messages[k].content = text]
                 ELSE list[i]]

CatchSessions_Silent(list, sessionId, id) == list

CatchSessions_Replace(list, sessionId, id) ==
    [i \in 1..Len(list) |->
        IF list[i].id # sessionId
        THEN list[i]
        ELSE LET n == Len(list[i].messages)
             IN  IF n > 0 /\ list[i].messages[n].role = "model"
                 THEN [list[i] EXCEPT !.messages[n].content = APOLOGY]
                 ELSE [list[i] EXCEPT !.messages =
                           Append(@, MkMessage(id, "model", APOLOGY))]]

\* lines 230-240: errorMessage, and the session list with it appended
CatchSessions(list, sessionId, id) ==
    AppendMessage(list, sessionId, MkMessage(id, "model", APOLOGY))

RenameSession_Upsert(list, sessionId, title) ==
    IF \E i \in 1..Len(list) : list[i].id = sessionId
    THEN [i \in 1..Len(list) |->
             IF list[i].id = sessionId THEN [list[i] EXCEPT !.title = title] ELSE list[i]]
    ELSE <<[id |-> sessionId, title |-> title, messages |-> <<>>, createdAt |-> 0,
            lastUpdated |-> 0]>> \o list

\* line 223: prev.map(s => s.id === sessionId ? { ...s, title } : s)
RenameSession(list, sessionId, title) ==
    [i \in 1..Len(list) |->
        IF list[i].id = sessionId THEN [list[i] EXCEPT !.title = title] ELSE list[i]]

RECURSIVE RemoveSession(_, _)
RemoveSession(list, id) ==
    IF list = <<>> THEN <<>>
    ELSE IF Head(list).id = id THEN RemoveSession(Tail(list), id)
    ELSE <<Head(list)>> \o RemoveSession(Tail(list), id)

\* The local sessionList of handleSendMessage, a snapshot of the list taken
\* when send began, kept as what line 220-221 read of it: for each session
\* its id and messages.length.
Snapshot(list) ==
    [i \in 1..Len(list) |-> [id |-> list[i].id, length |-> Len(list[i].messages)]]

TitleDue_Always(sessionList, sessionId) == TRUE

\* currentSession && currentSession.messages.length === 0, on the snapshot
TitleDue(sessionList, sessionId) ==
    /\ HasSession(sessionList, sessionId)
    /\ FindSession(sessionList, sessionId).length = 0

\* lines 35-45: what the mount effect can find in localStorage: nothing, or
\* the list an earlier page life saved; its identifiers are not drawn again
SavedSession ==
    [id |-> 1, title |-> "Saved", createdAt |-> 0, lastUpdated |-> 0,
     messages |-> <<MkMessage(1, "user", <<"h">>),
                    MkMessage(2, "model", <<"Hel", "lo">>)>>]

LoadedSessions == {<<>>, <<SavedSession>>}

IdleSend ==
    [pc |-> "idle", sessionId |-> NoSession, sessionList |-> <<>>,
     userContent |-> <<>>, botMessageId |-> NoMessage,
     fullResponseText |-> <<>>, received |-> <<>>, startLen |-> 0]
\* The local chat is dead once line 177 has submitted, and is not kept.
\* received and startLen are history: the text fragments the stream has
\* delivered, and the length of the target's message list when send began.
\* A send that ran to the end of its stream leaves its record, with pc back
\* at "idle", until the next send begins or fails.

\* crypto.randomUUID() for a session: fresh, and apart from message identifiers
NextSessionId == created + 2

\* ------------------------------------------------------------ scheduling
\* A UI handler runs only while the component is mounted.
UIReady == mounted

\* Date.now(): the clock never goes backwards; it has advanced since the last
\* reading, or has not
Clock == {t \in {now, now + 1} : t <= MaxTime}

\* localStorage.setItem in an effect: when it throws, the exception is not
\* caught by any handler of the component tree, and React unmounts the tree.
Persist(ok) ==
    /\ lastWrite' = IF ok THEN "ok" ELSE "failed"
    /\ mounted' = ok

NoWrite == UNCHANGED <<lastWrite, mounted>>

Init ==
    /\ sessions \in LoadedSessions
    /\ currentSessionId = NoSession
    /\ isGenerating = FALSE
    /\ settings = DEFAULT_SETTINGS
    /\ chatInstanceRef = Absent
    /\ send = IdleSend
    /\ titleTasks = {}
    /\ nextId = 3
    /\ now = 0
    /\ mounted = TRUE
    /\ lastWrite = "ok"
    /\ created = 0
    /\ sends = 0
    /\ titleLog = EmptyBag

\* --------------------------------------------------------------- actions
HandleNewChat(t, ok) ==
    /\ UIReady
    /\ created < MaxSessions
    /\ sessions' = <<NewSession(NextSessionId, t)>> \o sessions
    /\ currentSessionId' = NextSessionId
    /\ chatInstanceRef' = Absent
    /\ created' = created + 1
    /\ now' = t
    /\ Persist(ok)
    /\ UNCHANGED <<isGenerating, settings, send, titleTasks, nextId, sends, titleLog>>

OnSelectSession_KeepHandle(id) ==
    /\ UIReady
    /\ id \in Ids(sessions)
    /\ currentSessionId' = id
    /\ NoWrite
    /\ UNCHANGED <<sessions, isGenerating, settings, chatInstanceRef, send,
                   titleTasks, nextId, now, created, sends, titleLog>>

\* lines 263-266: setCurrentSessionId(id); chatInstanceRef.current = null
OnSelectSession(id) ==
    /\ UIReady
    /\ id \in Ids(sessions)
    /\ currentSessionId' = id
    /\ chatInstanceRef' = Absent
    /\ NoWrite
    /\ UNCHANGED <<sessions, isGenerating, settings, send, titleTasks, nextId,
                   now, created, sends, titleLog>>

HandleDeleteSession_AlwaysClear(id, ok) ==
    /\ UIReady
    /\ id \in Ids(sessions)
    /\ sessions' = RemoveSession(sessions, id)
    /\ currentSessionId' = NoSession
    /\ chatInstanceRef' = Absent
    /\ Persist(ok)
    /\ UNCHANGED <<isGenerating, settings, send, titleTasks, nextId, now,
                   created, sends, titleLog>>

HandleDeleteSession(id, ok) ==
    /\ UIReady
    /\ id \in Ids(sessions)
    /\ sessions' = RemoveSession(sessions, id)
    /\ IF currentSessionId = id
       THEN currentSessionId' = NoSession /\ chatInstanceRef' = Absent
       ELSE UNCHANGED <<currentSessionId, chatInstanceRef>>
    /\ Persist(ok)
    /\ UNCHANGED <<isGenerating, settings, send, titleTasks, nextId, now,
                   created, sends, titleLog>>

\* onSave={setSettings} with an edited record, then the effect of lines 62-66:
\* the reset of line 65 runs only if the setItem of line 63 returned.
OnSaveSettings(s, ok) ==
    /\ UIReady
    /\ settings' = s
    /\ chatInstanceRef' = IF ok THEN Absent ELSE chatInstanceRef
    /\ Persist(ok)
    /\ UNCHANGED <<sessions, currentSessionId, isGenerating, send, titleTasks,
                   nextId, now, created, sends, titleLog>>

CatchBlock_NoFinally(t, ok) ==
    /\ sessions' = CatchSessions(sessions, send.sessionId, nextId)
    /\ nextId' = nextId + 1
    /\ send' = IdleSend
    /\ now' = t
    /\ Persist(ok)
    /\ UNCHANGED <<currentSessionId, isGenerating, settings, chatInstanceRef,
                   titleTasks, created, sends, titleLog>>

\* the catch block of lines 227-240 and the finally of lines 241-243
CatchBlock(t, ok) ==
    /\ sessions' = CatchSessions(sessions, send.sessionId, nextId)
    /\ nextId' = nextId + 1
    /\ isGenerating' = FALSE
    /\ send' = IdleSend
    /\ now' = t
    /\ Persist(ok)
    /\ UNCHANGED <<currentSessionId, settings, chatInstanceRef, titleTasks,
                   created, sends, titleLog>>

Blocked_InputOnly(text, generating) == TrimText(text) = <<>>

\* line 135: !input.trim() || isGenerating
Blocked(text, generating) == TrimText(text) = <<>> \/ generating

\* lines 134-177: handleSendMessage up to the submission of the message.
\* getChatInstance runs its body before the await of line 176 yields, and
\* that await resumes in a microtask, before any other task.
HandleSendMessage(text, t, ok) ==
    /\ UIReady
    /\ IF Blocked(text, isGenerating)
       THEN UNCHANGED vars
       ELSE LET needNew == currentSessionId = NoSession
                sessionId == IF needNew THEN NextSessionId ELSE currentSessionId
                sessionList == IF needNew
                               THEN <<NewSession(NextSessionId, t)>> \o sessions
                               ELSE sessions
                userMessage == MkMessage(nextId, "user", TrimText(text))
                ref == IF needNew THEN Absent ELSE chatInstanceRef
                chat == getChatInstance(ref, settings)
            IN  /\ needNew => created < MaxSessions
                /\ sessions' = AppendUserMessage(sessionList, sessionId, userMessage, t)
                /\ currentSessionId' = sessionId
                /\ chatInstanceRef' = chat
                /\ isGenerating' = TRUE
                /\ send' = [pc |-> "awaitStream", sessionId |-> sessionId,
                            sessionList |-> Snapshot(sessionList),
                            userContent |-> userMessage.content,
                            botMessageId |-> NoMessage,
                            fullResponseText |-> <<>>, received |-> <<>>,
                            startLen |-> IF needNew THEN 0
                                         ELSE Len(FindSession(sessions, sessionId).messages)]
                /\ nextId' = nextId + 1
                /\ created' = IF needNew THEN created + 1 ELSE created
                /\ sends' = sends + 1
                /\ now' = t
                /\ Persist(ok)
                /\ UNCHANGED <<settings, titleTasks, titleLog>>

ReceiveStream_NoPlaceholder(t, ok) ==
    /\ mounted
    /\ send.pc = "awaitStream"
    /\ send' = [send EXCEPT !.pc = "streaming", !.botMessageId = nextId,
                            !.fullResponseText = <<>>]
    /\ nextId' = nextId + 1
    /\ now' = t
    /\ Persist(ok)
    /\ UNCHANGED <<sessions, currentSessionId, isGenerating, settings,
                   chatInstanceRef, titleTasks, created, sends, titleLog>>

\* lines 177-195: sendMessageStream resolved; the placeholder is appended
ReceiveStream(t, ok) ==
    /\ mounted
    /\ send.pc = "awaitStream"
    /\ sessions' = AppendMessage(sessions, send.sessionId,
                                 MkMessage(nextId, "model", <<>>))
    /\ send' = [send EXCEPT !.pc = "streaming", !.botMessageId = nextId,
                            !.fullResponseText = <<>>]
    /\ nextId' = nextId + 1
    /\ now' = t
    /\ Persist(ok)
    /\ UNCHANGED <<currentSessionId, isGenerating, settings, chatInstanceRef,
                   titleTasks, created, sends, titleLog>>

\* lines 197-217: one iteration of the for await loop; a chunk whose text is
\* empty is skipped by the test of line 200
StreamChunk(chunkText, ok) ==
    /\ mounted
    /\ send.pc = "streaming"
    /\ chunkText \in Fragments(Len(send.received) + 1)
    /\ IF chunkText # <<>>
       THEN LET text == Accumulate(send.fullResponseText, chunkText)
            IN  /\ Len(send.received) < MaxChunks
                /\ send' = [send EXCEPT !.fullResponseText = text,
                                        !.received = Append(@, chunkText)]
                /\ sessions' = UpdateBotMessage(sessions, send.sessionId,
                                                send.botMessageId, text)
                /\ Persist(ok)
                /\ UNCHANGED <<currentSessionId, isGenerating, settings,
                               chatInstanceRef, titleTasks, nextId, now,
                               created, sends, titleLog>>
       ELSE UNCHANGED vars

\* lines 219-225 and 241-243: the stream is exhausted
StreamDone ==
    /\ mounted
    /\ send.pc = "streaming"
    /\ IF TitleDue(send.sessionList, send.sessionId)
       THEN /\ titleTasks' = titleTasks \cup
                    {[sessionId |-> send.sessionId, text |-> send.userContent]}
            /\ titleLog' = titleLog (+) SetToBag({send.sessionId})
       ELSE UNCHANGED <<titleTasks, titleLog>>
    /\ isGenerating' = FALSE
    /\ send' = [send EXCEPT !.pc = "idle", !.sessionList = <<>>]
    /\ NoWrite
    /\ UNCHANGED <<sessions, currentSessionId, settings, chatInstanceRef, nextId,
                   now, created, sends>>

\* sendMessageStream rejects, or the iteration of the stream throws
StreamError(t, ok) ==
    /\ mounted
    /\ send.pc \in {"awaitStream", "streaming"}
    /\ CatchBlock(t, ok)

\* line 223: generateChatTitle resolved with title
TitleResolved(task, title, ok) ==
    /\ mounted
    /\ task \in titleTasks
    /\ titleTasks' = titleTasks \ {task}
    /\ sessions' = RenameSession(sessions, task.sessionId, title)
    /\ Persist(ok)
    /\ UNCHANGED <<currentSessionId, isGenerating, settings, chatInstanceRef,
                   send, nextId, now, created, sends, titleLog>>

\* one task of the event loop; oks are the outcomes a storage write may have
Step(oks) ==
    \/ \E t \in Clock, ok \in oks : HandleNewChat(t, ok)
    \/ \E id \in Ids(sessions) : OnSelectSession(id)
    \/ \E id \in Ids(sessions), ok \in oks : HandleDeleteSession(id, ok)
    \/ \E s \in AppSettings, ok \in oks : OnSaveSettings(s, ok)
    \/ \E text \in Inputs, t \in Clock, ok \in oks :
          HandleSendMessage(text, t, ok) /\ sends' <= MaxSends
    \/ \E t \in Clock, ok \in oks : ReceiveStream(t, ok)
    \/ \E chunkText \in Fragments(Len(send.received) + 1), ok \in oks :
          StreamChunk(chunkText, ok)
    \/ StreamDone
    \/ \E t \in Clock, ok \in oks : StreamError(t, ok)
    \/ \E task \in titleTasks, title \in Titles, ok \in oks : TitleResolved(task, title, ok)

\* durable storage accepts every write
Next == Step({TRUE})

Spec == Init /\ [][Next]_vars

\* durable storage may refuse a write (quota exceeded, storage disabled)
NextStorage == Step(BOOLEAN)

SpecStorage == Init /\ [][NextStorage]_vars

\* One task of the event loop where storage accepts every write, the clock
\* stands still and no title generation resolves while the run lasts; limit
\* is the number of sends the run may start.
StepStill(limit) ==
    \/ HandleNewChat(now, TRUE)
    \/ \E id \in Ids(sessions) : OnSelectSession(id)
    \/ \E id \in Ids(sessions) : HandleDeleteSession(id, TRUE)
    \/ \E s \in AppSettings : OnSaveSettings(s, TRUE)
    \/ \E text \in Inputs : HandleSendMessage(text, now, TRUE) /\ sends' <= limit
    \/ ReceiveStream(now, TRUE)
    \/ \E chunkText \in Fragments(Len(send.received) + 1) : StreamChunk(chunkText, TRUE)
    \/ StreamDone
    \/ StreamError(now, TRUE)

\* one send after another
NextResend == StepStill(MaxResends)

SpecResend == Init /\ [][NextResend]_vars

\* The promise of sendMessageStream resolves or rejects, and the iteration of
\* the stream ends or throws: the network does not stay silent for ever.
StreamOpens ==
    send.pc = "awaitStream" /\ (ReceiveStream(now, TRUE) \/ StreamError(now, TRUE))

StreamEnds ==
    send.pc = "streaming" /\ (StreamDone \/ StreamError(now, TRUE))

NextLive == StepStill(MaxSends)

SpecLive ==
    Init /\ [][NextLive]_vars /\ WF_vars(StreamOpens) /\ WF_vars(StreamEnds)

\* ---------------------------------------------------------------- claims
\* what a step is, told from its effect on the state
SendStarts == send.pc = "idle" /\ send'.pc = "awaitStream"

SendFails == send.pc # "idle" /\ send'.pc = "idle" /\ nextId' = nextId + 1

StreamCompletes == send.pc = "streaming" /\ send'.pc = "idle" /\ nextId' = nextId

Switched == currentSessionId' # currentSessionId /\ sessions' = sessions

Target(list) == FindSession(list, send.sessionId)

Last(seq) == seq[Len(seq)]

RECURSIVE Flatten(_)
Flatten(fragments) ==
    IF fragments = <<>> THEN <<>> ELSE Head(fragments) \o Flatten(Tail(fragments))

UniqueIds(list) ==
    \A i, j \in 1..Len(list) : list[i].id = list[j].id => i = j

WithoutId(list, id) == SelectSeq(list, LAMBDA s : s.id # id)

\* C1: a step that moves the active-session pointer within an unchanged
\* list (a selection), or that replaces the settings, leaves the handle
\* absent, also while a send is in flight; only the start of a send makes an
\* absent handle bound, and it binds it to the system instruction and the
\* model of the settings at that moment.
C1_HandleInvalidated ==
    [][/\ (Switched \/ settings' # settings) => chatInstanceRef' = Absent
       /\ (chatInstanceRef = Absent /\ chatInstanceRef' # Absent) => SendStarts
       /\ (SendStarts /\ chatInstanceRef = Absent) =>
              chatInstanceRef' = [kind |-> "chat",
                                  systemInstruction |-> settings.systemInstruction,
                                  model |-> settings.model]]_vars

\* a send that followed a change of settings, with the handle it built
C1_Witness ==
    /\ send.pc = "awaitStream"
    /\ settings # DEFAULT_SETTINGS
    /\ chatInstanceRef = [kind |-> "chat",
                          systemInstruction |-> CUSTOM_INSTRUCTION, model |-> PRO]

\* C2: from the arrival of the stream on, during its consumption and after
\* its exhaustion, the model message of the send holds the in-order
\* concatenation of the text fragments delivered so far, once each.
C2_CumulativeContent ==
    (send.botMessageId # NoMessage /\ HasSession(sessions, send.sessionId)) =>
        \E k \in 1..Len(Target(sessions).messages) :
            LET m == Target(sessions).messages[k]
            IN  /\ m.id = send.botMessageId
                /\ m.role = "model"
                /\ m.content = Flatten(send.received)

\* a stream of two fragments has been consumed to its end
C2_Witness ==
    /\ send.pc = "idle"
    /\ ~isGenerating
    /\ Len(send.received) = 2
    /\ HasSession(sessions, send.sessionId)
    /\ Last(Target(sessions).messages).content = <<"Hel", "lo">>
    /\ Last(Target(sessions).messages).id = send.botMessageId

\* C3: when the inference call fails, at submission or during the stream,
\* the send ends (the in-flight flag is cleared, the component stays
\* mounted) and the target session, if it is still in the list, ends with a
\* model message that holds the apology.
C3_FailureApology ==
    [][SendFails =>
          /\ isGenerating' = FALSE
          /\ mounted'
          /\ HasSession(sessions, send.sessionId) =>
                /\ HasSession(sessions', send.sessionId)
                /\ Last(Target(sessions').messages).role = "model"
                /\ Last(Target(sessions').messages).content = APOLOGY]_vars

\* a stream failed after its first fragment
C3_Witness ==
    /\ send.pc = "idle"
    /\ ~isGenerating
    /\ \E i \in 1..Len(sessions) :
          LET msgs == sessions[i].messages
          IN  /\ Len(msgs) >= 3
              /\ msgs[Len(msgs)].content = APOLOGY
              /\ msgs[Len(msgs) - 1].content = <<"Hel">>
              /\ msgs[Len(msgs) - 2].role = "user"

\* C4: generateChatTitle is called at most once for a session, only when a
\* stream is exhausted and the send began on an empty message list; a title
\* changes only when such a pending generation resolves.
C4_TitleOnce ==
    [][/\ \A id \in BagToSet(titleLog') : CopiesIn(id, titleLog') <= 1
       /\ titleLog' # titleLog =>
              /\ StreamCompletes
              /\ send.startLen = 0
              /\ titleLog' = titleLog (+) SetToBag({send.sessionId})
       /\ ~(titleTasks' \subseteq titleTasks) => titleLog' # titleLog
       /\ \A i \in 1..Len(sessions), j \in 1..Len(sessions') :
              (sessions[i].id = sessions'[j].id /\ sessions[i].title # sessions'[j].title)
                  => \E task \in titleTasks \ titleTasks' :
                         task.sessionId = sessions[i].id]_vars

\* a generated title has been applied
C4_Witness ==
    /\ titleTasks = {}
    /\ \E i \in 1..Len(sessions) :
          /\ sessions[i].title = "Summary"
          /\ CopiesIn(sessions[i].id, titleLog) = 1

\* C5: a send that starts while no session is active puts one new session,
\* titled "New Chat", at the head of the list, makes it active, gives it the
\* user message as its only message and leaves the other sessions as they were.
C5_SendCreatesSession ==
    [][(SendStarts /\ currentSessionId = NoSession) =>
          /\ Len(sessions') = Len(sessions) + 1
          /\ Tail(sessions') = sessions
          /\ Head(sessions').id \notin Ids(sessions)
          /\ Head(sessions').title = NEW_CHAT
          /\ currentSessionId' = Head(sessions').id
          /\ send'.sessionId = Head(sessions').id
          /\ Len(Head(sessions').messages) = 1
          /\ Head(sessions').messages[1].role = "user"
          /\ Head(sessions').messages[1].content = <<"h">>]_vars

\* a send has created a session in front of the loaded one
C5_Witness ==
    /\ send.pc = "awaitStream"
    /\ send.startLen = 0
    /\ Len(sessions) = 2
    /\ sessions[2] = SavedSession
    /\ sessions[1].id = currentSessionId
    /\ sessions[1].id = send.sessionId
    /\ Len(sessions[1].messages) = 1

\* C6: a step that shortens the list removes exactly one session; if that
\* session was the active one the pointer becomes empty and the handle
\* absent, otherwise the pointer and the handle stay as they were.
C6_Delete ==
    [][Len(sessions') < Len(sessions) =>
          \E id \in Ids(sessions) :
              /\ sessions' = WithoutId(sessions, id)
              /\ Len(sessions') = Len(sessions) - 1
              /\ id = currentSessionId =>
                     currentSessionId' = NoSession /\ chatInstanceRef' = Absent
              /\ id # currentSessionId =>
                     UNCHANGED <<currentSessionId, chatInstanceRef>>]_vars

\* the active session was deleted after a send had bound the handle to it
C6_Witness ==
    /\ sends = 1
    /\ currentSessionId = NoSession
    /\ chatInstanceRef = Absent
    /\ ~HasSession(sessions, send.sessionId)
    /\ send.pc = "streaming"

\* C7: with fresh identifiers and a clock that does not go backwards, no two
\* sessions of the list share an identifier, and the lastUpdated of a session
\* never decreases from one state to the next.
C7_UniqueMonotone ==
    [][/\ UniqueIds(sessions)
       /\ UniqueIds(sessions')
       /\ \A i \in 1..Len(sessions), j \in 1..Len(sessions') :
              sessions[i].id = sessions'[j].id =>
                  sessions'[j].lastUpdated >= sessions[i].lastUpdated]_vars

\* two sessions, one of them refreshed after its creation
C7_Witness ==
    /\ Len(sessions) = 2
    /\ \E i \in 1..Len(sessions) : sessions[i].lastUpdated > sessions[i].createdAt

\* C8: every step that changes the message list of a session sets the
\* lastUpdated of that session to the current time.
C8_EveryMutationRefreshes ==
    [][\A i \in 1..Len(sessions), j \in 1..Len(sessions') :
          (sessions[i].id = sessions'[j].id /\ sessions[i].messages # sessions'[j].messages)
              => sessions'[j].lastUpdated = now']_vars

\* C9 as stated: an error after the placeholder exists puts the apology into
\* the placeholder and adds no message.
C9_ApologyReplacesPlaceholder ==
    [][(SendFails /\ send.botMessageId # NoMessage /\ HasSession(sessions, send.sessionId)) =>
          LET k == FindIndex(Target(sessions).messages, send.botMessageId)
          IN  /\ Len(Target(sessions').messages) = Len(Target(sessions).messages)
              /\ Target(sessions').messages[k].content = APOLOGY]_vars

\* C9 amended: an error during a send appends the apology to the target
\* session as a new model message, whether or not the placeholder exists; the
\* messages before it, the placeholder with the text streamed so far among
\* them, stay as they were.
C9_ApologyAppended ==
    [][(SendFails /\ HasSession(sessions, send.sessionId)) =>
          LET old == Target(sessions).messages
              new == Target(sessions').messages
          IN  /\ Len(new) = Len(old) + 1
              /\ SubSeq(new, 1, Len(old)) = old
              /\ Last(new).role = "model"
              /\ Last(new).content = APOLOGY
              /\ \A j \in 1..Len(old) : old[j].id # Last(new).id]_vars

\* the apology follows the placeholder, which kept its partial text
C9_Witness ==
    /\ send.pc = "idle"
    /\ sends = 1
    /\ \E i \in 1..Len(sessions) :
          LET msgs == sessions[i].messages
          IN  /\ Len(msgs) >= 2
              /\ msgs[Len(msgs)].content = APOLOGY
              /\ msgs[Len(msgs) - 1].role = "model"
              /\ msgs[Len(msgs) - 1].content = <<"Hel", "lo">>

\* C10: a storage write that fails leaves the component mounted.
C10_WriteFailureContained == lastWrite = "failed" => mounted

\* the step that draws botMessageId and appends the placeholder
PlaceholderAppended == send.botMessageId = NoMessage /\ send'.botMessageId # NoMessage

\* C11 as stated: the placeholder is appended by the step that delivers the
\* first fragment, and a stream that ends without a fragment leaves the target
\* session with the user message as its last message.
C11_PlaceholderOnFirstFragment ==
    [][/\ PlaceholderAppended => Len(send'.received) = 1
       /\ (StreamCompletes /\ send.received = <<>>
               /\ HasSession(sessions', send.sessionId)) =>
              /\ Len(Target(sessions').messages) = send.startLen + 1
              /\ Last(Target(sessions').messages).role = "user"]_vars

\* C11 amended: the placeholder, a model message without text, is appended to
\* the target session by the step in which sendMessageStream resolves, before
\* any fragment is delivered and not earlier; a stream that ends without a
\* fragment leaves that empty model message as the last one of the session.
C11_PlaceholderOnStreamOpen ==
    [][/\ PlaceholderAppended =>
              /\ send.pc = "awaitStream"
              /\ send'.pc = "streaming"
              /\ send'.received = <<>>
              /\ HasSession(sessions, send.sessionId) =>
                     Target(sessions').messages =
                         Append(Target(sessions).messages,
                                [id |-> send'.botMessageId, role |-> "model",
                                 content |-> <<>>])
       /\ (send.pc = "awaitStream" /\ HasSession(sessions, send.sessionId)) =>
              /\ Len(Target(sessions).messages) = send.startLen + 1
              /\ Last(Target(sessions).messages).role = "user"
       /\ (StreamCompletes /\ send.received = <<>>
               /\ HasSession(sessions', send.sessionId)) =>
              /\ Len(Target(sessions').messages) = send.startLen + 2
              /\ Last(Target(sessions').messages) =
                     [id |-> send.botMessageId, role |-> "model", content |-> <<>>]]_vars

\* a stream has ended without a fragment
C11_Witness ==
    /\ send.pc = "idle"
    /\ ~isGenerating
    /\ send.botMessageId # NoMessage
    /\ send.received = <<>>
    /\ HasSession(sessions, send.sessionId)
    /\ Last(Target(sessions).messages) =
           [id |-> send.botMessageId, role |-> "model", content |-> <<>>]

\* a continuation of the send in flight: the only steps that change its locals
StreamStep == send.pc # "idle" /\ send' # send

\* a selection, a new chat or a save of the settings
Navigation ==
    \/ currentSessionId' # currentSessionId
    \/ settings' # settings
    \/ Len(sessions') > Len(sessions)

\* C12: while a send is in flight, a selection, a new chat or a save of the
\* settings leaves the send and its target session as they were and the
\* in-flight flag set; each later continuation of the send leaves every
\* session other than its target unchanged and, whichever session is active
\* and whatever the handle is, puts its result into the target: the
\* placeholder at the end, the cumulative text into the placeholder, the
\* apology at the end.
C12_StreamKeepsTarget ==
    [][/\ (send.pc # "idle" /\ Navigation) =>
              /\ send' = send
              /\ isGenerating'
              /\ (HasSession(sessions, send.sessionId)
                      /\ HasSession(sessions', send.sessionId)) =>
                     Target(sessions') = Target(sessions)
       /\ StreamStep =>
              /\ Len(sessions') = Len(sessions)
              /\ \A i \in 1..Len(sessions) :
                     sessions[i].id # send.sessionId => sessions'[i] = sessions[i]
              /\ HasSession(sessions, send.sessionId) =>
                     LET old == Target(sessions).messages
                         new == Target(sessions').messages
                         k == FindIndex(old, send.botMessageId)
                     IN  /\ Target(sessions') = [Target(sessions) EXCEPT !.messages = new]
                         /\ PlaceholderAppended =>
                                new = Append(old, MkMessage(send'.botMessageId, "model", <<>>))
                         /\ Len(send'.received) > Len(send.received) =>
                                /\ k # 0
                                /\ new = [old EXCEPT ![k].content = Flatten(send'.received)]
                         /\ SendFails =>
                                new = Append(old, MkMessage(nextId, "model", APOLOGY))
                         /\ StreamCompletes => new = old]_vars

\* a stream whose target is no longer the active session, after the settings
\* were replaced, has put two fragments into its target
C12_Witness ==
    /\ send.pc = "streaming"
    /\ currentSessionId # send.sessionId
    /\ currentSessionId # NoSession
    /\ settings # DEFAULT_SETTINGS
    /\ chatInstanceRef = Absent
    /\ HasSession(sessions, send.sessionId)
    /\ Last(Target(sessions).messages).content = <<"Hel", "lo">>
    /\ \E i \in 1..Len(sessions) :
          sessions[i].id = currentSessionId /\ sessions[i].messages = <<>>

\* C13: a continuation of a send whose target is not in the list, and a title
\* generation that resolves for a session that is not in the list, leave the
\* list as it was; an identifier that enters the list is a fresh one, which
\* is neither the target of the send nor awaited by a pending title.
C13_DeletedTargetNoOp ==
    [][/\ (StreamStep /\ ~HasSession(sessions, send.sessionId)) => sessions' = sessions
       /\ \A task \in titleTasks \ titleTasks' :
              ~HasSession(sessions, task.sessionId) => sessions' = sessions
       /\ \A id \in Ids(sessions') \ Ids(sessions) :
              /\ id = NextSessionId
              /\ created' = created + 1
              /\ send.pc # "idle" => id # send.sessionId
              /\ \A task \in titleTasks : id # task.sessionId]_vars

\* a send created a session that was deleted; its stream has ended and its
\* title has resolved, and the loaded session is all the list holds
C13_Witness ==
    /\ send.pc = "idle"
    /\ send.botMessageId # NoMessage
    /\ Len(send.received) = 2
    /\ ~HasSession(sessions, send.sessionId)
    /\ CopiesIn(send.sessionId, titleLog) = 1
    /\ titleTasks = {}
    /\ sessions = <<SavedSession>>

\* a session of the list has gained a message of the given role
Gained(role) ==
    \E i \in 1..Len(sessions), j \in 1..Len(sessions') :
        /\ sessions[i].id = sessions'[j].id
        /\ Len(sessions'[j].messages) > Len(sessions[i].messages)
        /\ Last(sessions'[j].messages).role = role

\* C14: while a send is in flight no step, so no send command, starts a send,
\* appends a user message, binds the handle or creates a session with a
\* message in it; a send that starts does so while none is in flight and
\* with text that is not only whitespace; the in-flight flag is set exactly
\* while the one invocation is running.
C14_BlockedSendChangesNothing ==
    [][/\ isGenerating =>
              /\ sends' = sends
              /\ ~Gained("user")
              /\ chatInstanceRef' \in {chatInstanceRef, Absent}
              /\ \A j \in 1..Len(sessions') :
                     sessions'[j].id \notin Ids(sessions) => sessions'[j].messages = <<>>
              /\ send.pc # "awaitStream" => send'.pc # "awaitStream"
       /\ (sends' # sends \/ Gained("user")) =>
              /\ ~isGenerating
              /\ SendStarts
              /\ \E k \in 1..Len(send'.userContent) : ~IsSpace(send'.userContent[k])
       /\ isGenerating <=> send.pc # "idle"]_vars

\* a stream is in flight and the run still has a send to spend
C14_Witness ==
    /\ isGenerating
    /\ send.pc = "streaming"
    /\ Len(send.received) = 1
    /\ sends = 1
    /\ sends < MaxResends

\* C15: if the promise of sendMessageStream is settled in the end and the
\* stream ends or fails in the end, then whatever selections, new chats,
\* deletions and saves of the settings happen meanwhile, a send in flight is
\* followed by a state where the in-flight flag is clear.
C15_SendFinishes == isGenerating ~> ~isGenerating

\* a send has run to the end of its stream although its session was deleted
\* and the settings were replaced meanwhile
C15_Witness ==
    /\ sends = 1
    /\ ~isGenerating
    /\ send.pc = "idle"
    /\ send.botMessageId # NoMessage
    /\ ~HasSession(sessions, send.sessionId)
    /\ settings # DEFAULT_SETTINGS

\* the handle fits the state: it is what createChatSession returns for the
\* settings of the state, and a session of the list is active
HandleFits(ref, st, active, list) ==
    ref # Absent =>
        /\ ref = createChatSession(st.systemInstruction, st.model)
        /\ active # NoSession
        /\ HasSession(list, active)

\* C16: in every state a bound handle is the one createChatSession returns
\* for the settings of that state, and a session is active; a step that
\* leaves the handle bound leaves the handle, the active session and the
\* settings as they were, so the handle was built while that session was
\* active and from those settings; a send submits through a handle that fits
\* its target, and through the handle of the previous send only when its
\* target is the session that was active before.
C16_HandleBoundToState ==
    [][/\ HandleFits(chatInstanceRef, settings, currentSessionId, sessions)
       /\ HandleFits(chatInstanceRef', settings', currentSessionId', sessions')
       /\ (chatInstanceRef # Absent /\ chatInstanceRef' # Absent) =>
              /\ chatInstanceRef' = chatInstanceRef
              /\ currentSessionId' = currentSessionId
              /\ settings' = settings
       /\ SendStarts =>
              /\ chatInstanceRef' = createChatSession(settings'.systemInstruction,
                                                      settings'.model)
              /\ currentSessionId' = send'.sessionId
              /\ chatInstanceRef # Absent => send'.sessionId = currentSessionId]_vars

\* the second send of a run goes to the session the first one created, under
\* settings that were saved before the handle was built
C16_Witness ==
    /\ sends = 2
    /\ created = 1
    /\ send.pc = "awaitStream"
    /\ send.startLen = 2
    /\ send.sessionId = currentSessionId
    /\ Len(sessions) = 2
    /\ sessions[1].id = currentSessionId
    /\ chatInstanceRef = createChatSession(CUSTOM_INSTRUCTION, PRO)
    /\ settings = [systemInstruction |-> CUSTOM_INSTRUCTION, model |-> PRO]
====
